---- MODULE Spec2Model ----
(***************************************************************************)
(* A model of EvolutionGenerator (app_SDG_from_scratch_simplified.ipynb):  *)
(* chunk_document, generate_simple_questions, apply_evolutions,            *)
(* generate_evolved_questions, critic and validate_evolved_questions, and  *)
(* the notebook cells that run them in sequence.                           *)
(*                                                                         *)
(* A Python str is a sequence of one-character strings.  A value that may  *)
(* be None is a record [none, text].                                       *)
(***************************************************************************)
EXTENDS Integers, Sequences, FiniteSets, TLC

VARIABLES
    pc,           \* position of the run: which notebook cell / loop is next
    error,        \* the exception that escaped to the caller, or "none"
    port,         \* which text-generation service answers the calls
    doc,          \* document (input)
    chunk_size,   \* chunk_size (input)
    chunks,       \* result of chunk_document
    questions,    \* list built by generate_simple_questions
    qi,           \* generate_simple_questions: index of the next chunk
    all_evolved,  \* list built by generate_evolved_questions
    evolutions,   \* apply_evolutions: the list being built
    bi,           \* generate_evolved_questions: index of the current question
    pi,           \* apply_evolutions: index of the next evolution
    valid,        \* list built by validate_evolved_questions
    vb,           \* validate_evolved_questions: index of the current pair
    vc,           \* validate_evolved_questions: index of the next evolved question
    verdicts,     \* the validity lines printed by validate_evolved_questions
    portLog       \* every call made to the text-generation service, in order

vars == <<pc, error, port, doc, chunk_size, chunks, questions, qi, all_evolved,
          evolutions, bi, pi, valid, vb, vc, verdicts, portLog>>

-----------------------------------------------------------------------------
(* Bounds of the model.                                                    *)

MaxDocLen == 5
MaxChunk == 3
MaxNeg == 2

-----------------------------------------------------------------------------
(* Python str and list primitives used by the code.                        *)

Space == " "

Whitespace == {" ", "\n", "\t"}

IsSpace(c) == c \in Whitespace

Lowers == <<"a","b","c","d","e","f","g","h","i","j","k","l","m",
            "n","o","p","q","r","s","t","u","v","w","x","y","z">>

Uppers == <<"A","B","C","D","E","F","G","H","I","J","K","L","M",
            "N","O","P","Q","R","S","T","U","V","W","X","Y","Z">>

UpperChar(c) ==
    IF \E i \in 1..Len(Lowers) : Lowers[i] = c
    THEN Uppers[CHOOSE i \in 1..Len(Lowers) : Lowers[i] = c]
    ELSE c

\* str.upper()
Upper(s) == [k \in 1..Len(s) |-> UpperChar(s[k])]

RECURSIVE LStrip(_)
LStrip(s) ==
    IF s # <<>> /\ IsSpace(Head(s)) THEN LStrip(Tail(s)) ELSE s

RECURSIVE RStrip(_)
RStrip(s) ==
    IF s # <<>> /\ IsSpace(s[Len(s)]) THEN RStrip(SubSeq(s, 1, Len(s) - 1)) ELSE s

\* str.strip()
Strip(s) == RStrip(LStrip(s))

RECURSIVE WordEnd(_, _)
WordEnd(s, i) ==
    IF i + 1 > Len(s) \/ IsSpace(s[i + 1]) THEN i ELSE WordEnd(s, i + 1)

RECURSIVE SplitFrom(_, _)
SplitFrom(s, i) ==
    IF i > Len(s) THEN <<>>
    ELSE IF IsSpace(s[i]) THEN SplitFrom(s, i + 1)
    ELSE <<SubSeq(s, i, WordEnd(s, i))>> \o SplitFrom(s, WordEnd(s, i) + 1)

\* str.split() with no separator: the runs of non-whitespace, in order
Split(s) == SplitFrom(s, 1)

RECURSIVE Join(_, _)
\* sep.join(words)
Join(sep, words) ==
    IF words = <<>> THEN <<>>
    ELSE IF Len(words) = 1 THEN words[1]
    ELSE words[1] \o <<sep>> \o Join(sep, Tail(words))

\* len(range(lo, hi, step)) for step > 0
RangeLen(lo, hi, step) ==
    IF lo < hi THEN ((hi - lo - 1) \div step) + 1 ELSE 0

\* range(start, stop, step), step # 0 (range raises ValueError when step = 0)
PyRange(start, stop, step) ==
    LET n == IF step > 0 THEN RangeLen(start, stop, step)
             ELSE RangeLen(stop, start, 0 - step)
    IN  [k \in 1..n |-> start + (k - 1) * step]

\* a slice bound, as Python clips it to 0..n
SliceBound(k, n) ==
    IF k < 0 THEN (IF k + n < 0 THEN 0 ELSE k + n)
    ELSE (IF k > n THEN n ELSE k)

\* seq[lo:hi] (indices from 0)
Slice(seq, lo, hi) ==
    SubSeq(seq, SliceBound(lo, Len(seq)) + 1, SliceBound(hi, Len(seq)))

-----------------------------------------------------------------------------
(* Step 1: chunk_document.                                                 *)

\* the list comprehension of chunk_document with windows of width+1 words
ChunkDocumentOverlap(d, cs) ==
    LET words == Split(d)
        starts == PyRange(0, Len(words), cs)
    IN  [k \in 1..Len(starts) |->
            Join(Space, Slice(words, starts[k], starts[k] + cs + 1))]

\* chunk_document that forgets a final, shorter window
ChunkDocumentNoTail(d, cs) ==
    LET words == Split(d)
        stop == IF cs > 0 THEN Len(words) - (Len(words) % cs) ELSE Len(words)
        starts == PyRange(0, stop, cs)
    IN  [k \in 1..Len(starts) |->
            Join(Space, Slice(words, starts[k], starts[k] + cs))]

\* chunk_document(doc, chunk_size), chunk_size # 0
ChunkDocument(d, cs) ==
    LET words == Split(d)
        starts == PyRange(0, Len(words), cs)
    IN  [k \in 1..Len(starts) |->
            Join(Space, Slice(words, starts[k], starts[k] + cs))]

\* range(0, len(words), 0) raises ValueError
ChunkDocumentRaises(cs) == cs = 0

-----------------------------------------------------------------------------
(* The text-generation service and gpt().                                  *)

None == [none |-> TRUE, text |-> <<>>]

Str(t) == [none |-> FALSE, text |-> t]

\* Python truth value of a str-or-None: None and "" are false
Truthy(r) == ~r.none /\ r.text # <<>>

\* what chat.completions.create does: raise, or answer with content
Raise == [raises |-> TRUE, content |-> <<>>]

Reply(t) == [raises |-> FALSE, content |-> t]

\* gpt(prompt): the content, or None after any exception
Gpt(outcome) == IF outcome.raises THEN None ELSE Str(outcome.content)

\* apply_evolutions asking for the compression before the complexity evolution
PoliciesSwapped == <<"compression", "complexity", "rephrasing">>

\* the three evolutions of apply_evolutions, in the order of its code
Policies == <<"complexity", "compression", "rephrasing">>

\* the f-string prompts: the template used and the values put into it
QuestionPrompt(chunk) == [kind |-> "question", a |-> chunk, b |-> <<>>]

EvolutionPrompt(p, question) == [kind |-> Policies[p], a |-> question, b |-> <<>>]

CriticPrompt(original, evolved) == [kind |-> "critic", a |-> original, b |-> evolved]

AlphaDoc == <<"A","l","p","h","a"," ","b","e","t","a"," ","g","a","m","m","a"," ","d","e","l","t","a">>

AlphaBeta == <<"A","l","p","h","a"," ","b","e","t","a">>

GammaDelta == <<"g","a","m","m","a"," ","d","e","l","t","a">>

Q1 == <<"Q","1","?">>

Q2 == <<"Q","2","?">>

Cx1 == <<"C","1","?">>

Cx2 == <<"C","2","?">>

Co1 == <<"C","o","1","?">>

Co2 == <<"C","o","2","?">>

R1 == <<"R","1","?">>

R2 == <<"R","2","?">>

ValidToken == <<"V","A","L","I","D">>

InvalidToken == <<"I","N","V","A","L","I","D">>

EmptyDoc == <<>>

\* the fixture service of the end-to-end scenario: fixed answers per prompt
FixturePort(prompt) ==
    CASE prompt.kind = "question" /\ prompt.a = AlphaBeta -> Reply(Q1)
      [] prompt.kind = "question" /\ prompt.a = GammaDelta -> Reply(Q2)
      [] prompt.kind = "complexity" /\ prompt.a = Q1 -> Reply(Cx1)
      [] prompt.kind = "complexity" /\ prompt.a = Q2 -> Reply(Cx2)
      [] prompt.kind = "compression" /\ prompt.a = Q1 -> Reply(Co1)
      [] prompt.kind = "compression" /\ prompt.a = Q2 -> Reply(Co2)
      [] prompt.kind = "rephrasing" /\ prompt.a = Q1 -> Reply(R1)
      [] prompt.kind = "rephrasing" /\ prompt.a = Q2 -> Reply(R2)
      [] prompt.kind = "critic" /\ prompt.b \in {Co1, Co2, R1, R2} -> Reply(ValidToken)
      [] prompt.kind = "critic" /\ prompt.b \notin {Co1, Co2, R1, R2} -> Reply(InvalidToken)
      [] OTHER -> Raise

Tag(kind) ==
    CASE kind = "question" -> <<"Q", ":">>
      [] kind = "complexity" -> <<"C", ":">>
      [] kind = "compression" -> <<"K", ":">>
      [] kind = "rephrasing" -> <<"R", ":">>
      [] OTHER -> <<"?", ":">>

\* a generated text that names its prompt, with whitespace around it
AnyText(prompt) == <<" ">> \o Tag(prompt.kind) \o prompt.a \o <<"\n">>

\* the answers an unconstrained service gives in the bounded run
AnyPort(prompt) ==
    CASE prompt.kind = "question" ->
            {Raise, Reply(<<>>), Reply(<<" ">>), Reply(AnyText(prompt))}
      [] prompt.kind = "critic" ->
            {Raise, Reply(<<" ", "v", "a", "l", "i", "d", "\n">>), Reply(InvalidToken)}
      [] OTHER ->
            {Raise, Reply(<<" ">>), Reply(AnyText(prompt))}

\* the answers tried on the judgment prompt when critic is examined alone
JudgeAnswers ==
    { <<"V","A","L","I","D">>,
      <<"v","a","l","i","d">>,
      <<"V","a","l","i","d">>,
      <<" ","V","a","l","i","d"," ">>,
      <<"V","A","L","I","D","\n">>,
      <<"\t","v","a","l","i","d"," ","\n">>,
      <<"I","N","V","A","L","I","D">>,
      <<"i","n","v","a","l","i","d">>,
      <<>>,
      <<" ">>,
      <<"y","e","s">>,
      <<"V","a","l","i","d",".">>,
      <<"V","A","L","I">>,
      <<"V","A","L","I","D","D">>,
      <<"V"," ","A","L","I","D">>,
      <<"V","A","L","I","D"," ","V","A","L","I","D">>,
      <<"N","O","T"," ","V","A","L","I","D">> }

JudgePort(prompt) == {Raise} \cup {Reply(t) : t \in JudgeAnswers}

\* the answers tried when generate_evolved_questions is examined alone
EvolvePort(prompt) ==
    {Raise, Reply(<<>>), Reply(<<" ">>), Reply(AnyText(prompt))}

PortOutcomes(mode, prompt) ==
    CASE mode = "fixture" -> {FixturePort(prompt)}
      [] mode = "judge" -> JudgePort(prompt)
      [] mode = "evolve" -> EvolvePort(prompt)
      [] OTHER -> AnyPort(prompt)

\* one entry of portLog
Call(prompt, result) == [prompt |-> prompt, result |-> result]

-----------------------------------------------------------------------------
(* Step 4: critic.                                                         *)

\* critic comparing without upper()
CriticNoUpper(result) == Strip(result.text) = ValidToken

\* critic comparing without strip()
CriticNoStrip(result) == Upper(result.text) = ValidToken

\* critic: result.strip().upper() == "VALID", for a str result
Critic(result) == Upper(Strip(result.text)) = ValidToken

\* critic: None has no strip(), the call raises AttributeError
CriticRaises(result) == result.none

-----------------------------------------------------------------------------
(* The run: the notebook's cells, each loop one iteration at a time.       *)

\* the (document, chunk_size) pairs the whole pipeline is run on
PipelineInputs ==
    { <<AlphaDoc, 2>>, <<AlphaDoc, 4>>, <<AlphaDoc, 0>>, <<AlphaDoc, 0 - 1>>,
      <<EmptyDoc, 2>> }

Fresh ==
    /\ error = "none"
    /\ chunks = <<>>
    /\ questions = <<>>
    /\ qi = 1
    /\ all_evolved = <<>>
    /\ evolutions = <<>>
    /\ bi = 1
    /\ pi = 1
    /\ valid = <<>>
    /\ vb = 1
    /\ vc = 1
    /\ verdicts = <<>>
    /\ portLog = <<>>

Init ==
    /\ pc = "init"
    /\ port \in {"fixture", "any"}
    /\ \E in \in PipelineInputs : doc = in[1] /\ chunk_size = in[2]
    /\ Fresh

\* chunks = generator.chunk_document(document)
Step1Chunk ==
    /\ pc = "init"
    /\ IF ChunkDocumentRaises(chunk_size)
       THEN /\ pc' = "raised"
            /\ error' = "ValueError"
            /\ UNCHANGED chunks
       ELSE /\ pc' = "chunked"
            /\ chunks' = ChunkDocument(doc, chunk_size)
            /\ UNCHANGED error
    /\ UNCHANGED <<port, doc, chunk_size, questions, qi, all_evolved, evolutions,
                   bi, pi, valid, vb, vc, verdicts, portLog>>

\* "if x: list.append(x.strip())" giving up the list built so far on a failure
AppendOrReset(list, r) ==
    IF Truthy(r) THEN Append(list, Strip(r.text)) ELSE <<>>

\* "if x: list.append(x.strip())" recording an empty entry for a failed call
AppendPlaceholder(list, r) ==
    IF Truthy(r) THEN Append(list, Strip(r.text)) ELSE Append(list, <<>>)

\* the list after "if x: list.append(x.strip())"
AppendIfTruthy(list, r) ==
    IF Truthy(r) THEN Append(list, Strip(r.text)) ELSE list

\* generate_simple_questions: one iteration of "for chunk in chunks"
QuestionCall ==
    /\ pc = "chunked"
    /\ qi <= Len(chunks)
    /\ \E o \in PortOutcomes(port, QuestionPrompt(chunks[qi])) :
          LET question == Gpt(o)
          IN  /\ portLog' = Append(portLog, Call(QuestionPrompt(chunks[qi]), question))
              /\ questions' = AppendIfTruthy(questions, question)
    /\ qi' = qi + 1
    /\ UNCHANGED <<pc, error, port, doc, chunk_size, chunks, all_evolved, evolutions,
                   bi, pi, valid, vb, vc, verdicts>>

\* generate_simple_questions returning before every chunk had its call
QuestionsReturnEarly ==
    /\ pc = "chunked"
    /\ pc' = "synthesized"
    /\ UNCHANGED <<error, port, doc, chunk_size, chunks, questions, qi, all_evolved,
                   evolutions, bi, pi, valid, vb, vc, verdicts, portLog>>

\* generate_simple_questions: return questions
QuestionsReturn ==
    /\ pc = "chunked"
    /\ qi > Len(chunks)
    /\ pc' = "synthesized"
    /\ UNCHANGED <<error, port, doc, chunk_size, chunks, questions, qi, all_evolved,
                   evolutions, bi, pi, valid, vb, vc, verdicts, portLog>>

\* apply_evolutions: one of its three gpt calls; after the third, the list is
\* returned and generate_evolved_questions appends (question, evolved_questions)
EvolutionCall ==
    /\ pc = "synthesized"
    /\ bi <= Len(questions)
    /\ \E o \in PortOutcomes(port, EvolutionPrompt(pi, questions[bi])) :
          LET evolved == Gpt(o)
              list == AppendIfTruthy(evolutions, evolved)
          IN  /\ portLog' = Append(portLog,
                                   Call(EvolutionPrompt(pi, questions[bi]), evolved))
              /\ IF pi < Len(Policies)
                 THEN /\ evolutions' = list
                      /\ pi' = pi + 1
                      /\ UNCHANGED <<all_evolved, bi>>
                 ELSE /\ all_evolved' = Append(all_evolved, <<questions[bi], list>>)
                      /\ evolutions' = <<>>
                      /\ pi' = 1
                      /\ bi' = bi + 1
    /\ UNCHANGED <<pc, error, port, doc, chunk_size, chunks, questions, qi,
                   valid, vb, vc, verdicts>>

\* generate_evolved_questions: return all_evolved_questions
EvolvedReturn ==
    /\ pc = "synthesized"
    /\ bi > Len(questions)
    /\ pc' = "evolved"
    /\ UNCHANGED <<error, port, doc, chunk_size, chunks, questions, qi, all_evolved,
                   evolutions, bi, pi, valid, vb, vc, verdicts, portLog>>

\* "if is_valid: append" appending the evolved question twice
AcceptTwice(list, is_valid, evolved_question) ==
    IF is_valid THEN Append(Append(list, evolved_question), evolved_question) ELSE list

\* "if is_valid: append" inserting at the front instead
AcceptInFront(list, is_valid, evolved_question) ==
    IF is_valid THEN <<evolved_question>> \o list ELSE list

\* if is_valid: valid_evolved_questions.append(evolved_question)
AcceptInto(list, is_valid, evolved_question) ==
    IF is_valid THEN Append(list, evolved_question) ELSE list

\* validate_evolved_questions: one iteration of "for evolved_question in evolutions"
ValidateCritic ==
    /\ pc = "evolved"
    /\ vb <= Len(all_evolved)
    /\ vc <= Len(all_evolved[vb][2])
    /\ LET original_question == all_evolved[vb][1]
           evolved_question == all_evolved[vb][2][vc]
       IN  \E o \in PortOutcomes(port, CriticPrompt(original_question, evolved_question)) :
             LET result == Gpt(o)
             IN  /\ portLog' = Append(portLog,
                        Call(CriticPrompt(original_question, evolved_question), result))
                 /\ IF CriticRaises(result)
                    THEN /\ pc' = "raised"
                         /\ error' = "AttributeError"
                         /\ UNCHANGED <<valid, vc, verdicts>>
                    ELSE /\ verdicts' = Append(verdicts,
                                [b |-> vb, c |-> vc, is_valid |-> Critic(result)])
                         /\ valid' = AcceptInto(valid, Critic(result), evolved_question)
                         /\ vc' = vc + 1
                         /\ UNCHANGED <<pc, error>>
    /\ UNCHANGED <<port, doc, chunk_size, chunks, questions, qi, all_evolved,
                   evolutions, bi, pi, vb>>

\* validate_evolved_questions: the outer loop takes the next (question, evolutions)
ValidateNextPair ==
    /\ pc = "evolved"
    /\ vb <= Len(all_evolved)
    /\ vc > Len(all_evolved[vb][2])
    /\ vb' = vb + 1
    /\ vc' = 1
    /\ UNCHANGED <<pc, error, port, doc, chunk_size, chunks, questions, qi, all_evolved,
                   evolutions, bi, pi, valid, verdicts, portLog>>

\* validate_evolved_questions: return valid_evolved_questions
ValidateReturn ==
    /\ pc = "evolved"
    /\ vb > Len(all_evolved)
    /\ pc' = "judged"
    /\ UNCHANGED <<error, port, doc, chunk_size, chunks, questions, qi, all_evolved,
                   evolutions, bi, pi, valid, vb, vc, verdicts, portLog>>

\* the last cell prints the valid evolved questions
PrintValid ==
    /\ pc = "judged"
    /\ pc' = "done"
    /\ UNCHANGED <<error, port, doc, chunk_size, chunks, questions, qi, all_evolved,
                   evolutions, bi, pi, valid, vb, vc, verdicts, portLog>>

Next ==
    \/ Step1Chunk
    \/ QuestionCall
    \/ QuestionsReturn
    \/ EvolutionCall
    \/ EvolvedReturn
    \/ ValidateCritic
    \/ ValidateNextPair
    \/ ValidateReturn
    \/ PrintValid

Spec == Init /\ [][Next]_vars

-----------------------------------------------------------------------------
(* chunk_document alone, on every short document.                          *)

Alphabet == {" ", "\n", "a", "b"}

Docs == UNION { [1..n -> Alphabet] : n \in 0..MaxDocLen }

ChunkSizes == (0 - MaxNeg)..MaxChunk

InitChunk ==
    /\ pc = "init"
    /\ port = "any"
    /\ doc \in Docs
    /\ chunk_size \in ChunkSizes
    /\ Fresh

NextChunk == Step1Chunk

SpecChunk == InitChunk /\ [][NextChunk]_vars

-----------------------------------------------------------------------------
(* critic alone (through validate_evolved_questions), on many answers.     *)

CriticInputs ==
    { << <<q, <<c>>>> >> : q \in {Q1, <<>>}, c \in {Co1, Q1} }
    \cup { << <<Q1, <<Cx1, Co1>>>> >> }

InitCritic ==
    /\ pc = "evolved"
    /\ port = "judge"
    /\ \E in \in CriticInputs : all_evolved = in
    /\ error = "none"
    /\ doc = EmptyDoc
    /\ chunk_size = 1
    /\ chunks = <<>>
    /\ questions = <<>>
    /\ qi = 1
    /\ evolutions = <<>>
    /\ bi = 1
    /\ pi = 1
    /\ valid = <<>>
    /\ vb = 1
    /\ vc = 1
    /\ verdicts = <<>>
    /\ portLog = <<>>

NextCritic ==
    \/ ValidateCritic
    \/ ValidateNextPair
    \/ ValidateReturn

SpecCritic == InitCritic /\ [][NextCritic]_vars

-----------------------------------------------------------------------------
(* generate_evolved_questions alone, on every kind of answer.              *)

EvolveInputs == { <<Q1>>, <<Q1, Q2>> }

InitEvolve ==
    /\ pc = "synthesized"
    /\ port = "evolve"
    /\ questions \in EvolveInputs
    /\ error = "none"
    /\ doc = EmptyDoc
    /\ chunk_size = 1
    /\ chunks = <<>>
    /\ qi = 1
    /\ all_evolved = <<>>
    /\ evolutions = <<>>
    /\ bi = 1
    /\ pi = 1
    /\ valid = <<>>
    /\ vb = 1
    /\ vc = 1
    /\ verdicts = <<>>
    /\ portLog = <<>>

NextEvolve ==
    \/ EvolutionCall
    \/ EvolvedReturn

SpecEvolve == InitEvolve /\ [][NextEvolve]_vars

-----------------------------------------------------------------------------
(* generate_simple_questions alone.                                        *)

QuestionInputs ==
    { <<>>, <<AlphaBeta>>, <<AlphaBeta, GammaDelta>>,
      <<AlphaBeta, GammaDelta, AlphaBeta>> }

InitQuestions ==
    /\ pc = "chunked"
    /\ port = "any"
    /\ chunks \in QuestionInputs
    /\ error = "none"
    /\ doc = EmptyDoc
    /\ chunk_size = 1
    /\ questions = <<>>
    /\ qi = 1
    /\ all_evolved = <<>>
    /\ evolutions = <<>>
    /\ bi = 1
    /\ pi = 1
    /\ valid = <<>>
    /\ vb = 1
    /\ vc = 1
    /\ verdicts = <<>>
    /\ portLog = <<>>

NextQuestions ==
    \/ QuestionCall
    \/ QuestionsReturn

SpecQuestions == InitQuestions /\ [][NextQuestions]_vars

-----------------------------------------------------------------------------
(* Reference notions the properties are stated with.                       *)

\* the maximal runs of non-whitespace of s, as <<first, last>> positions
WordSpans(s) ==
    { sp \in (1..Len(s)) \X (1..Len(s)) :
        /\ sp[1] <= sp[2]
        /\ \A k \in sp[1]..sp[2] : s[k] \notin Whitespace
        /\ (sp[1] = 1 \/ s[sp[1] - 1] \in Whitespace)
        /\ (sp[2] = Len(s) \/ s[sp[2] + 1] \in Whitespace) }

\* the whitespace-delimited words of s, left to right
WordSeq(s) ==
    [n \in 1..Cardinality(WordSpans(s)) |->
        LET sp == CHOOSE x \in WordSpans(s) :
                      Cardinality({y \in WordSpans(s) : y[1] < x[1]}) = n - 1
        IN  [k \in 1..(sp[2] - sp[1] + 1) |-> s[sp[1] + k - 1]]]

RECURSIVE AllWords(_)
\* the words of a list of segments, segment after segment
AllWords(segments) ==
    IF segments = <<>> THEN <<>>
    ELSE WordSeq(Head(segments)) \o AllWords(Tail(segments))

CeilDiv(n, w) == (n + w - 1) \div w

Min(x, y) == IF x < y THEN x ELSE y

\* t is the letters V-A-L-I-D in either case, with only whitespace around them
IsValidAnswer(t) ==
    \E i \in 1..Len(t) :
        /\ i + 4 <= Len(t)
        /\ \A k \in 1..(i - 1) : t[k] \in Whitespace
        /\ \A k \in (i + 5)..Len(t) : t[k] \in Whitespace
        /\ t[i] \in {"V", "v"}
        /\ t[i + 1] \in {"A", "a"}
        /\ t[i + 2] \in {"L", "l"}
        /\ t[i + 3] \in {"I", "i"}
        /\ t[i + 4] \in {"D", "d"}

-----------------------------------------------------------------------------
(* Properties.                                                             *)

\* C1: for a positive chunk size, chunk_document returns ceil(words/size)
\* segments whose words, in segment order, are exactly the words of the
\* document; a document without words gives no segment.
ChunkCoverage ==
    (pc = "chunked" /\ chunk_size > 0) =>
        /\ Len(chunks) = CeilDiv(Len(WordSeq(doc)), chunk_size)
        /\ AllWords(chunks) = WordSeq(doc)
        /\ (WordSeq(doc) = <<>> => chunks = <<>>)

\* C1 witness: three words cut into a full and a shorter segment
ChunkCoverageWitness ==
    /\ pc = "chunked"
    /\ chunk_size = 2
    /\ Len(WordSeq(doc)) = 3
    /\ Len(chunks) = 2

\* C2: for a positive chunk size, segment k holds the words
\* (k-1)*size+1 .. min(k*size, n) of the document: between 1 and size words,
\* and exactly size words in every segment but the last.
ChunkWindows ==
    (pc = "chunked" /\ chunk_size > 0) =>
        \A k \in 1..Len(chunks) :
            /\ Len(WordSeq(chunks[k])) \in 1..chunk_size
            /\ (k < Len(chunks) => Len(WordSeq(chunks[k])) = chunk_size)
            /\ WordSeq(chunks[k]) =
                  SubSeq(WordSeq(doc), (k - 1) * chunk_size + 1,
                         Min(k * chunk_size, Len(WordSeq(doc))))

\* C2 witness: a last segment shorter than the chunk size after a full one
ChunkWindowsWitness ==
    /\ pc = "chunked"
    /\ chunk_size = 2
    /\ Len(chunks) = 2
    /\ Len(WordSeq(chunks[1])) = 2
    /\ Len(WordSeq(chunks[2])) = 1

\* C3: for a chunk size of zero or less, chunking fails with an error that
\* reaches the caller: no segments are returned and no port call was made.
NonPositiveChunkSizeFails ==
    (chunk_size <= 0 /\ pc # "init") =>
        /\ pc = "raised"
        /\ chunks = <<>>
        /\ portLog = <<>>

\* C4: for every string answer to the judgment prompt, critic returns true
\* exactly when the answer, trimmed and case-normalized, is VALID; the answers
\* INVALID, the empty string, yes and Valid. give false.
CriticExactToken ==
    \A k \in 1..Len(verdicts) :
        LET v == verdicts[k]
            call == portLog[k]
        IN  /\ call.prompt = CriticPrompt(all_evolved[v.b][1], all_evolved[v.b][2][v.c])
            /\ ~call.result.none
            /\ v.is_valid <=> IsValidAnswer(call.result.text)
            /\ (call.result.text \in
                    {InvalidToken, <<>>, <<"y", "e", "s">>,
                     <<"V", "a", "l", "i", "d", ".">>} => ~v.is_valid)
            /\ (call.result.text = ValidToken => v.is_valid)

\* C4 witness: an answer accepted only after trimming and upper-casing, then
\* a near miss rejected
CriticExactTokenWitness ==
    /\ Len(verdicts) = 2
    /\ portLog[1].result.text = <<"\t", "v", "a", "l", "i", "d", " ", "\n">>
    /\ verdicts[1].is_valid
    /\ portLog[2].result.text = <<"V", "a", "l", "i", "d", ".">>
    /\ ~verdicts[2].is_valid

\* C5: a judgment call that fails (gpt returns None) makes critic return
\* false: no exception reaches the caller and a false verdict is recorded.
CriticFailClosed ==
    \A k \in 1..Len(portLog) :
        (portLog[k].prompt.kind = "critic" /\ portLog[k].result.none) =>
            /\ pc # "raised"
            /\ error = "none"
            /\ Len(verdicts) >= k
            /\ ~verdicts[k].is_valid

\* C6: with a positive chunk size the run never aborts with an exception,
\* whichever calls fail.
RunNeverAborts ==
    chunk_size > 0 => (pc # "raised" /\ error = "none")

IsEvolutionCall(call) == call.prompt.kind \in {Policies[p] : p \in 1..Len(Policies)}

IsCriticCall(call) == call.prompt.kind = "critic"

IsSuccess(call) == ~call.result.none /\ call.result.text # <<>>

\* the calls of apply_evolutions, and those of critic, in the order made
EvolutionCalls == SelectSeq(portLog, IsEvolutionCall)

CriticCalls == SelectSeq(portLog, IsCriticCall)

\* the calls apply_evolutions made for the b-th question, in policy order
CallsFor(b) ==
    SubSeq(EvolutionCalls, Len(Policies) * (b - 1) + 1, Len(Policies) * b)

\* what the successful calls for the b-th question answered, trimmed
AnswersFor(b) ==
    LET ok == SelectSeq(CallsFor(b), IsSuccess)
    IN  [k \in 1..Len(ok) |-> Strip(ok[k].result.text)]

RECURSIVE AnswersUpTo(_)
\* the answers for questions 1..n, question after question
AnswersUpTo(n) ==
    IF n = 0 THEN <<>> ELSE AnswersUpTo(n - 1) \o AnswersFor(n)

RECURSIVE Judged(_, _)
\* the candidates whose judgment call, taken in the same order, answered VALID
Judged(candidates, calls) ==
    IF candidates = <<>> \/ calls = <<>> THEN <<>>
    ELSE (IF IsValidAnswer(Head(calls).result.text)
          THEN <<Head(candidates)>> ELSE <<>>)
         \o Judged(Tail(candidates), Tail(calls))

\* C7: the list validate_evolved_questions returns is the candidates, in
\* question order and then policy order, whose judgment answered VALID: none
\* added, none left out, order kept.
AcceptedIsFilter ==
    pc \in {"judged", "done"} =>
        /\ Len(CriticCalls) = Len(AnswersUpTo(Len(questions)))
        /\ valid = Judged(AnswersUpTo(Len(questions)), CriticCalls)

\* C7 witness: the first question has candidates and none accepted, the second
\* has one accepted and one rejected
AcceptedIsFilterWitness ==
    /\ pc = "done"
    /\ Len(all_evolved) = 2
    /\ Len(all_evolved[1][2]) >= 1
    /\ \A k \in 1..Len(verdicts) : verdicts[k].b = 1 => ~verdicts[k].is_valid
    /\ \E k \in 1..Len(verdicts) : verdicts[k].b = 2 /\ verdicts[k].is_valid
    /\ \E k \in 1..Len(verdicts) : verdicts[k].b = 2 /\ ~verdicts[k].is_valid
    /\ valid # <<>>

\* C8: "Alpha beta gamma delta" with chunk size 2 and the fixture service
\* gives the segments "Alpha beta", "gamma delta", the questions Q1?, Q2?, and
\* the accepted list Co1?, R1?, Co2?, R2?.
FixtureScenario ==
    (port = "fixture" /\ doc = AlphaDoc /\ chunk_size = 2) =>
        /\ pc # "raised"
        /\ (pc # "init" => chunks = <<AlphaBeta, GammaDelta>>)
        /\ (pc \in {"synthesized", "evolved", "judged", "done"} =>
                questions = <<Q1, Q2>>)
        /\ (pc \in {"evolved", "judged", "done"} =>
                all_evolved = << <<Q1, <<Cx1, Co1, R1>>>>, <<Q2, <<Cx2, Co2, R2>>>> >>)
        /\ (pc \in {"judged", "done"} => valid = <<Co1, R1, Co2, R2>>)

\* C8 witness: the scenario has run to its end
FixtureScenarioWitness ==
    /\ port = "fixture"
    /\ doc = AlphaDoc
    /\ chunk_size = 2
    /\ pc = "done"
    /\ Len(valid) = 4

\* generate_evolved_questions has returned
EvolvedReturned ==
    \/ pc \in {"evolved", "judged", "done"}
    \/ (pc = "raised" /\ error = "AttributeError")

\* exactly one call of apply_evolutions failed and every other one succeeded
OneEvolutionFailure ==
    LET calls == EvolutionCalls
    IN  /\ Cardinality({k \in 1..Len(calls) : calls[k].result.none}) = 1
        /\ \A k \in 1..Len(calls) : calls[k].result.none \/ IsSuccess(calls[k])

\* C9: when exactly one policy call fails, the three policies of every
\* question are still called, the question of the failed call keeps the
\* candidates of its other two policies, every other question has all three,
\* and no exception comes out of the question or evolution calls.
SoftFailureIsolation ==
    /\ (pc = "raised" =>
          \/ (error = "ValueError" /\ portLog = <<>>)
          \/ (error = "AttributeError" /\ portLog # <<>>
                /\ IsCriticCall(portLog[Len(portLog)])))
    /\ (EvolvedReturned /\ OneEvolutionFailure) =>
          /\ Len(all_evolved) = Len(questions)
          /\ Len(EvolutionCalls) = Len(Policies) * Len(questions)
          /\ \A b \in 1..Len(questions) :
                LET calls == CallsFor(b)
                IN  /\ \A p \in 1..Len(Policies) :
                          calls[p].prompt = EvolutionPrompt(p, questions[b])
                    /\ all_evolved[b] = <<questions[b], AnswersFor(b)>>
                    /\ Len(all_evolved[b][2]) =
                          (IF \E p \in 1..Len(Policies) : calls[p].result.none
                           THEN Len(Policies) - 1 ELSE Len(Policies))

\* C9 witness: two questions, the compression call of the first fails
SoftFailureIsolationWitness ==
    /\ pc = "evolved"
    /\ OneEvolutionFailure
    /\ Len(questions) = 2
    /\ CallsFor(1)[2].result.none
    /\ Len(all_evolved[1][2]) = 2
    /\ Len(all_evolved[2][2]) = 3

TrueVerdicts == SelectSeq(verdicts, LAMBDA v : v.is_valid)

EvolutionCardinality ==
    LET order == <<"complexity", "compression", "rephrasing">>
    IN  /\ Len(EvolutionCalls) = 3 * (bi - 1) + (pi - 1)
        /\ Len(all_evolved) = bi - 1
        /\ \A b \in 1..Len(all_evolved) :
              LET calls == CallsFor(b)
              IN  /\ Len(calls) = 3
                  /\ \A p \in 1..3 :
                        calls[p].prompt =
                            [kind |-> order[p], a |-> all_evolved[b][1], b |-> <<>>]
                  /\ Len(all_evolved[b][2]) <= 3
                  /\ Len(all_evolved[b][2]) =
                        Cardinality({p \in 1..3 : IsSuccess(calls[p])})

\* C11 witness: one call answered, one answered with the empty string, one
\* failed: a single candidate
EvolutionCardinalityWitness ==
    /\ pc = "evolved"
    /\ Len(all_evolved) = 1
    /\ IsSuccess(CallsFor(1)[1])
    /\ ~CallsFor(1)[2].result.none /\ CallsFor(1)[2].result.text = <<>>
    /\ CallsFor(1)[3].result.none
    /\ Len(all_evolved[1][2]) = 1

\* t is s without its leading and trailing whitespace
IsTrimOf(t, s) ==
    \E i \in 1..(Len(s) + 1) :
        \E j \in (i - 1)..Len(s) :
            /\ t = SubSeq(s, i, j)
            /\ \A k \in 1..(i - 1) : s[k] \in Whitespace
            /\ \A k \in (j + 1)..Len(s) : s[k] \in Whitespace
            /\ (t # <<>> => (t[1] \notin Whitespace /\ t[Len(t)] \notin Whitespace))

IsQuestionCall(call) == call.prompt.kind = "question"

\* the calls of generate_simple_questions, in the order made
QuestionCalls == SelectSeq(portLog, IsQuestionCall)

\* C12: generate_simple_questions calls the port once per segment, in
\* segment order and never twice; the returned list holds one trimmed entry
\* per segment whose call answered (not None, not empty), in segment order,
\* and nothing for the others, so it is never longer than the segment list.
OneCallPerSegment ==
    LET calls == QuestionCalls
        answered == SelectSeq(calls, IsSuccess)
    IN  /\ Len(calls) = qi - 1
        /\ Len(calls) <= Len(chunks)
        /\ \A k \in 1..Len(calls) :
              calls[k].prompt = [kind |-> "question", a |-> chunks[k], b |-> <<>>]
        /\ Len(questions) = Len(answered)
        /\ \A k \in 1..Len(answered) :
              IsTrimOf(questions[k], answered[k].result.text)
        /\ Len(questions) <= Len(chunks)
        /\ (pc = "synthesized" => Len(calls) = Len(chunks))

\* C12 witness: of three segments the first call fails, the second answers
\* with the empty string and the third answers: one question is returned
OneCallPerSegmentWitness ==
    /\ pc = "synthesized"
    /\ Len(chunks) = 3
    /\ QuestionCalls[1].result.none
    /\ ~QuestionCalls[2].result.none /\ QuestionCalls[2].result.text = <<>>
    /\ IsSuccess(QuestionCalls[3])
    /\ questions = <<Strip(QuestionCalls[3].result.text)>>

\* the place of a position of the run in Init, Chunked, Synthesized, Evolved,
\* Judged, Done
StageRank(p) ==
    CASE p = "init" -> 0
      [] p = "chunked" -> 1
      [] p = "synthesized" -> 2
      [] p = "evolved" -> 3
      [] p = "judged" -> 4
      [] p = "done" -> 5
      [] OTHER -> 0 - 1

\* question calls come first, then evolution calls, then judgment calls
CallRank(call) ==
    IF IsQuestionCall(call) THEN 1 ELSE IF IsEvolutionCall(call) THEN 2 ELSE 3

\* where the calls stand at each stage
StageCalls ==
    /\ (pc = "init" => portLog = <<>>)
    /\ (pc = "chunked" => \A k \in 1..Len(portLog) : IsQuestionCall(portLog[k]))
    /\ (pc = "synthesized" => \A k \in 1..Len(portLog) : ~IsCriticCall(portLog[k]))
    /\ \A j, k \in 1..Len(portLog) :
          j < k => CallRank(portLog[j]) <= CallRank(portLog[k])
    /\ (StageRank(pc) >= 2 => Len(QuestionCalls) = Len(chunks))
    /\ (StageRank(pc) >= 3 => Len(EvolutionCalls) = 3 * Len(questions))
    /\ (StageRank(pc) >= 4 => Len(CriticCalls) = Len(AnswersUpTo(Len(questions))))

\* a step stays in its stage or enters the next one (or ends the run with an
\* exception), and makes at most one call, answered within the step
StageStep ==
    /\ (pc' # pc =>
          /\ pc \notin {"done", "raised"}
          /\ (pc' = "raised" \/ StageRank(pc') = StageRank(pc) + 1))
    /\ \/ portLog' = portLog
       \/ /\ Len(portLog') = Len(portLog) + 1
          /\ SubSeq(portLog', 1, Len(portLog)) = portLog
          /\ pc' \in {pc, "raised"}

\* C13: the run goes through Init, Chunked, Synthesized, Evolved, Judged,
\* Done in that order, none skipped, none entered again; every question call
\* is made and answered before the first evolution call, every evolution
\* call before the first judgment call, and calls are made one at a time.
StageSequence == [](StageCalls) /\ [][StageStep]_vars

\* C13 witness: a run that reached Done after question, evolution and
\* judgment calls
StageSequenceWitness ==
    /\ pc = "done"
    /\ QuestionCalls # <<>>
    /\ EvolutionCalls # <<>>
    /\ CriticCalls # <<>>

\* C14: every question recorded by generate_simple_questions and every
\* candidate recorded by apply_evolutions is a non-empty string.
RecordedNonEmpty ==
    /\ \A k \in 1..Len(questions) : questions[k] # <<>>
    /\ \A k \in 1..Len(evolutions) : evolutions[k] # <<>>
    /\ \A b \in 1..Len(all_evolved) :
          \A c \in 1..Len(all_evolved[b][2]) : all_evolved[b][2][c] # <<>>

====
